---- MODULE Spec2Model ----
(***************************************************************************)
(* A model of the gas-plant pipeline: src/clean_data.py (the cleaner and   *)
(* merge_units_to_plants), src/read_data.py, src/config.py and the         *)
(* __main__ block of src/plotting.py.                                      *)
(*                                                                         *)
(* A pandas DataFrame is a record [columns, rows]: the set of its column   *)
(* names and the sequence of its rows, each row a function from the        *)
(* columns to cells.  A cell is <<>> (NaN / None) or <<v>>.                *)
(***************************************************************************)
EXTENDS Integers, Sequences, FiniteSets, TLC

VARIABLES
    env,      \* the files and packages the run finds
    gem,      \* the table stored in the GEM file
    df,       \* the table the entry point is called on
    units,    \* df_clean as handed to merge_units_to_plants (clean_data.py:229)
    out,      \* the table the entry point returned
    out2,     \* merge_units_to_plants applied to its own result
    figures,  \* the files written under the figures directory
    err,      \* the exception that ended the run, "" when none
    pc        \* the position of the run

vars == <<env, gem, df, units, out, out2, figures, err, pc>>

\* ------------------------------------------------------------------ bounds

MaxRows == 3
MaxRawRows == 2
MaxGemRows == 1

\* ------------------------------------------------------------------- cells

NaN == <<>>
V(x) == <<x>>
isna(c) == c = NaN
notna(c) == c # NaN

DataFrame(columns, rows) == [columns |-> columns, rows |-> rows]
NoFrame == DataFrame({}, <<>>)

\* the early return of an empty frame left out
NeverEmpty(d) == FALSE

\* df.empty: no rows or no columns
Empty(d) == Len(d.rows) = 0 \/ d.columns = {}

\* a column of a sequence of rows, as a sequence of cells (a Series)
Series(rows, c) == [i \in 1..Len(rows) |-> rows[i][c]]

\* Series.dropna()
dropna(s) == SelectSeq(s, notna)

\* unique() left out: every value, repeats included
unique_keep_all(s) == s

\* Series.unique(): the distinct values in order of first appearance
RECURSIVE unique(_)
unique(s) ==
    IF s = <<>> THEN <<>>
    ELSE LET u == unique(SubSeq(s, 1, Len(s) - 1))
             x == s[Len(s)]
         IN  IF \E i \in 1..Len(u) : u[i] = x THEN u ELSE Append(u, x)

\* list(...): the values of a sequence of non-null cells
Values(s) == [i \in 1..Len(s) |-> s[i][1]]

\* sep.join(strs)
RECURSIVE Join(_, _)
Join(sep, strs) ==
    IF strs = <<>> THEN ""
    ELSE IF Len(strs) = 1 THEN strs[1]
    ELSE strs[1] \o sep \o Join(sep, Tail(strs))

\* str(x) of a value that is a str already
Str(x) == x

\* the strings used as grouping keys, in Python's (code point) order
StrOrder == <<"Ca Mau", "L1", "L2", "Phu My">>
Rank(s) == CHOOSE i \in 1..Len(StrOrder) : StrOrder[i] = s
LessThan(a, b) == Rank(a) < Rank(b)

\* sorted(S): the elements of a set of keys in ascending order
RECURSIVE sorted(_)
sorted(S) ==
    IF S = {} THEN <<>>
    ELSE LET m == CHOOSE x \in S : \A y \in S : ~LessThan(y, x)
         IN  <<m>> \o sorted(S \ {m})

\* ----------------------------------------------------- merge_units_to_plants

AllCols ==
    {"id", "unit_id", "plant_name", "plant_name_local", "unit_name", "fuel",
     "fuel_class", "capacity_mw", "status", "technology", "lat", "lon", "city",
     "province", "region", "start_year", "retired_year", "planned_retire",
     "owner", "operator"}

SumCols   == {"capacity_mw"}
ListCols  == {"unit_id", "unit_name"}
FirstCols == {"id", "plant_name", "plant_name_local",
              "lat", "lon", "city", "province", "region"}
JoinCols  == {"status", "technology", "fuel", "fuel_class", "owner", "operator"}
MinCols   == {"start_year"}
MaxCols   == {"retired_year", "planned_retire"}

\* the keys of agg_dict for a frame with the given columns
AggCols(columns) ==
    (SumCols \cup ListCols \cup FirstCols \cup JoinCols \cup MinCols \cup MaxCols)
        \cap columns

\* groupby "sum": nulls are skipped, an all-null group sums to 0
RECURSIVE SumCells(_)
SumCells(s) ==
    IF s = <<>> THEN 0
    ELSE (IF isna(Head(s)) THEN 0 ELSE Head(s)[1]) + SumCells(Tail(s))

\* sum(min_count=1): an all-null group sums to NaN
agg_sum_min_count(s) == IF dropna(s) = <<>> THEN NaN ELSE V(SumCells(s))

agg_sum(s) == V(SumCells(s))

\* groupby "first": the first non-null value of the group, NaN when none
agg_first(s) == LET d == dropna(s) IN IF d = <<>> THEN NaN ELSE d[1]

\* groupby "min": nulls are skipped, NaN when all are null
agg_min(s) ==
    LET d == dropna(s)
    IN  IF d = <<>> THEN NaN
        ELSE V(CHOOSE m \in {d[i][1] : i \in 1..Len(d)} :
                   \A j \in 1..Len(d) : m <= d[j][1])

\* lambda x: x.max() if x.notna().any() else None
agg_max(s) ==
    LET d == dropna(s)
    IN  IF d = <<>> THEN NaN
        ELSE V(CHOOSE m \in {d[i][1] : i \in 1..Len(d)} :
                   \A j \in 1..Len(d) : m >= d[j][1])

\* lambda x: ", ".join(x.dropna().unique())
agg_join(s) == V(Join(", ", Values(unique(dropna(s)))))

\* the list rendered by str() instead of being joined
agg_list_repr(s) ==
    LET l == Values(unique(dropna(s)))
    IN  V("[" \o Join(", ", [i \in 1..Len(l) |-> "'" \o Str(l[i]) \o "'"]) \o "]")

\* lambda x: list(x.dropna().unique()), then lines 91-97:
\* ", ".join(map(str, x))
agg_list(s) ==
    LET l == Values(unique(dropna(s)))
    IN  V(Join(", ", [i \in 1..Len(l) |-> Str(l[i])]))

Agg(c, s) ==
    CASE c \in SumCols   -> agg_sum(s)
      [] c \in ListCols  -> agg_list(s)
      [] c \in FirstCols -> agg_first(s)
      [] c \in JoinCols  -> agg_join(s)
      [] c \in MinCols   -> agg_min(s)
      [] c \in MaxCols   -> agg_max(s)

\* lines 32-34: plant_name, or id when the column is absent or all null
GroupKey(d) ==
    IF "plant_name" \notin d.columns
          \/ \A i \in 1..Len(d.rows) : isna(d.rows[i]["plant_name"])
    THEN "id" ELSE "plant_name"

\* groupby(key, sort=False): the group keys in order of first appearance
GroupKeysUnsorted(d, key) == Values(unique(dropna(Series(d.rows, key))))

\* groupby(key): the group keys; sort=True orders them, dropna=True leaves
\* the rows with a null key out of every group
GroupKeys(d, key) ==
    sorted({d.rows[i][key][1] : i \in {j \in 1..Len(d.rows) : notna(d.rows[j][key])}})

\* the rows of one group, in the order of the frame
Group(d, key, k) == SelectSeq(d.rows, LAMBDA r : r[key] = V(k))

\* the number of distinct unit ids of the group instead of its size
GroupSizeDistinctUnits(d, key, k) ==
    Len(unique(dropna(Series(Group(d, key, k), "unit_id"))))

\* df.groupby(group_key).size()
GroupSize(d, key, k) == Len(Group(d, key, k))

Ok(d) == [raised |-> "", value |-> d]
Raise(e) == [raised |-> e, value |-> NoFrame]

merge_units_to_plants(d) ==
    IF Empty(d) THEN Ok(d)
    ELSE
      LET group_key == GroupKey(d) IN
      IF group_key \notin d.columns THEN Raise("KeyError")
      ELSE
        LET agg_dict == AggCols(d.columns)
            keys == GroupKeys(d, group_key)
            plant(k) ==
                [c \in agg_dict \cup {"num_units"} |->
                    IF c = "num_units" THEN V(GroupSize(d, group_key, k))
                    ELSE Agg(c, Series(Group(d, group_key, k), c))]
        IN  Ok(DataFrame(agg_dict \cup {"num_units"},
                         [i \in 1..Len(keys) |-> plant(keys[i])]))

\* ------------------------------------------------------ clean_gas_plant_data

\* cfg["columns"]: the source column configured for each field (config.yaml)
cols == [c \in AllCols |-> "GEM " \o c]

\* cfg["filters"]["country"] (config.yaml)
target_country == "Vietnam"

country_col == "Country/Area"

\* lines 134-155
selected_columns == {cols[c] : c \in AllCols}

\* lines 157-185: df[selected_columns].copy().rename(columns=rename_map)
select_and_rename(rows) ==
    [i \in 1..Len(rows) |-> [c \in AllCols |-> rows[i][cols[c]]]]

\* the numbers a text cell can be parsed to
Numeral == [t \in {"50", "100", "2001", "2010", "2040", "2050"} |->
    CASE t = "50" -> 50 [] t = "100" -> 100 [] t = "2001" -> 2001
      [] t = "2010" -> 2010 [] t = "2040" -> 2040 [] t = "2050" -> 2050]

\* pd.to_numeric(..., errors="coerce"): text that is no number becomes NaN
to_numeric(c) ==
    IF isna(c) THEN NaN
    ELSE IF c[1] \in DOMAIN Numeral THEN V(Numeral[c[1]]) ELSE NaN

NumericCols == {"capacity_mw", "start_year", "retired_year", "planned_retire"}

\* lines 190-193
convert_numeric(rows) ==
    [i \in 1..Len(rows) |->
        [c \in AllCols |->
            IF c \in NumericCols THEN to_numeric(rows[i][c]) ELSE rows[i][c]]]

\* Series.between(lo, hi): both ends included
between(c, lo, hi) == lo <= c[1] /\ c[1] <= hi

\* coordinates checked for latitude only
valid_latitude_only(r) == notna(r["lat"]) /\ between(r["lat"], -90, 90)

\* lines 198-202: dropna(subset=["lat", "lon"]), then both ranges
valid_coordinates(r) ==
    /\ notna(r["lat"])
    /\ notna(r["lon"])
    /\ between(r["lat"], -90, 90)
    /\ between(r["lon"], -180, 180)

\* a status string is a sequence of words and blanks; astype(str) of NaN
\* is the word "nan"
astype_str(c) == IF isna(c) THEN <<"nan">> ELSE c[1]

\* str.strip(): the blanks at both ends removed
RECURSIVE lstrip(_)
lstrip(t) == IF t # <<>> /\ Head(t) = " " THEN lstrip(Tail(t)) ELSE t

RECURSIVE rstrip(_)
rstrip(t) ==
    IF t # <<>> /\ t[Len(t)] = " " THEN rstrip(SubSeq(t, 1, Len(t) - 1)) ELSE t

strip(t) == rstrip(lstrip(t))

\* str.lower() of one word
LowerWord(w) ==
    CASE w = "Operating" -> "operating"
      [] w = "Shut" -> "shut"
      [] w = "Construction" -> "construction"
      [] OTHER -> w

lower(t) == [i \in 1..Len(t) |-> LowerWord(t[i])]

\* str.replace(" ", "_")
replace_blank(t) == [i \in 1..Len(t) |-> IF t[i] = " " THEN "_" ELSE t[i]]

\* lines 207-213
normalise_status(c) == V(Join("", replace_blank(lower(strip(astype_str(c))))))

standardise_status(rows) ==
    [i \in 1..Len(rows) |->
        [rows[i] EXCEPT !["status"] = normalise_status(rows[i]["status"])]]

\* drop_duplicates(keep="last")
drop_duplicates_keep_last(rows) ==
    LET same(i, j) == /\ rows[i]["id"] = rows[j]["id"]
                      /\ rows[i]["unit_id"] = rows[j]["unit_id"]
        kept == {i \in 1..Len(rows) : \A j \in (i + 1)..Len(rows) : ~same(i, j)}
        pick[n \in 0..Len(rows)] ==
            IF n = 0 THEN <<>>
            ELSE IF n \in kept THEN Append(pick[n - 1], rows[n]) ELSE pick[n - 1]
    IN  pick[Len(rows)]

\* line 218: drop_duplicates(subset=["id", "unit_id"]), the first row of
\* each pair kept (two nulls count as equal)
drop_duplicates(rows) ==
    LET same(i, j) == /\ rows[i]["id"] = rows[j]["id"]
                      /\ rows[i]["unit_id"] = rows[j]["unit_id"]
        kept == {i \in 1..Len(rows) : \A j \in 1..(i - 1) : ~same(i, j)}
        pick[n \in 0..Len(rows)] ==
            IF n = 0 THEN <<>>
            ELSE IF n \in kept THEN Append(pick[n - 1], rows[n]) ELSE pick[n - 1]
    IN  pick[Len(rows)]

\* lines 220-224
keep_statuses == {"operating", "construction", "pre-construction", "announced"}

\* line 227
status_kept(r) == r["status"][1] \in keep_statuses

\* line 157: df[selected_columns] raises KeyError for a column not in df
missing_columns(d) == ~(selected_columns \subseteq d.columns)

\* load_config(): config.py lines 16-17
config_missing(e) == ~e.config

Failed(e) == [raised |-> e, units |-> NoFrame, value |-> NoFrame]

\* the whole function; breakpoint() at lines 228 and 230 resumes
clean_gas_plant_data(d, e) ==
    IF config_missing(e) THEN Failed("FileNotFoundError")
    ELSE IF country_col \notin d.columns THEN Failed("KeyError")
    ELSE
      LET in_country ==
              SelectSeq(d.rows, LAMBDA r : r[country_col] = V(target_country))
      IN
      IF missing_columns(d) THEN Failed("KeyError")
      ELSE
        LET renamed == select_and_rename(in_country)
            numeric == convert_numeric(renamed)
            located == SelectSeq(numeric, valid_coordinates)
            standard == standardise_status(located)
            deduped == drop_duplicates(standard)
            kept == SelectSeq(deduped, status_kept)
            df_clean == DataFrame(AllCols, kept)
            merged == merge_units_to_plants(df_clean)
        IN  [raised |-> merged.raised, units |-> df_clean, value |-> merged.value]

\* ------------------------------------------------- read_data, config, plotting

\* config.py lines 27-34: the keys of cfg["paths"]
config_paths == {"root", "raw", "processed", "gem_file", "cleaned_output", "figures"}

\* read_data.py lines 8-19 and 22-33: load_raw_gem_data()
load_raw_gem_data(e, file) ==
    IF config_missing(e) THEN Raise("FileNotFoundError")
    ELSE IF ~e.gem_file THEN Raise("FileNotFoundError")
    ELSE IF e.suffix \in {".xlsx", ".xls", ".csv"} THEN Ok(file)
    ELSE Raise("ValueError")

figure_name == "plants_and_pop_density.png"

\* plotting.py lines 24-146: plot_plants_and_pop_density(df_plants); the
\* value is the set of files it saved
plot_plants_and_pop_density(d, e) ==
    IF ~e.rasterio THEN [raised |-> "ImportError", value |-> {}]
    ELSE IF config_missing(e) THEN [raised |-> "FileNotFoundError", value |-> {}]
    ELSE IF ~({"lat", "lon"} \subseteq d.columns)
        THEN [raised |-> "ValueError", value |-> {}]
    ELSE IF SelectSeq(d.rows, LAMBDA r : notna(r["lat"]) /\ notna(r["lon"])) = <<>>
        THEN [raised |-> "ValueError", value |-> {}]
    ELSE IF "population_tiff_file" \notin config_paths
        THEN [raised |-> "KeyError", value |-> {}]
    ELSE IF ~e.tiff THEN [raised |-> "FileNotFoundError", value |-> {}]
    ELSE [raised |-> "", value |-> {figure_name}]

\* ------------------------------------------------------------------ inputs

\* sample values of each column; index 0 stands for a null cell
Sample ==
    [c \in AllCols |->
        CASE c = "id"               -> <<"L1", "L2">>
          [] c = "unit_id"          -> <<"G1", "G2">>
          [] c = "plant_name"       -> <<"Ca Mau", "Phu My">>
          [] c = "plant_name_local" -> <<"Ca Mau", "Phu My">>
          [] c = "unit_name"        -> <<"CC1", "CC2">>
          [] c = "fuel"             -> <<"fossil gas: natural gas", "fossil gas: LNG">>
          [] c = "fuel_class"       -> <<"gas", "LNG">>
          [] c = "capacity_mw"      -> <<50, 100>>
          [] c = "status"           -> <<"operating", "construction">>
          [] c = "technology"       -> <<"combined cycle", "gas turbine">>
          [] c = "lat"              -> <<10, 21>>
          [] c = "lon"              -> <<105, 107>>
          [] c = "city"             -> <<"Ca Mau", "Ba Ria">>
          [] c = "province"         -> <<"Ca Mau", "Ba Ria-Vung Tau">>
          [] c = "region"           -> <<"Asia", "Asia">>
          [] c = "start_year"       -> <<2001, 2010>>
          [] c = "retired_year"     -> <<2040, 2050>>
          [] c = "planned_retire"   -> <<2040, 2050>>
          [] c = "owner"            -> <<"PVN", "EVN">>
          [] c = "operator"         -> <<"PV Power", "EVN Genco 3">>]

Pick(c, k) == IF k = 0 THEN NaN ELSE V(Sample[c][k])

\* a unit row: plant name n, plant id i, location 1, and the unit profile k
\* that picks the value of every other column (0: all of them null)
UnitRow(n, i, k) ==
    [c \in AllCols |->
        CASE c \in {"plant_name", "plant_name_local"} -> Pick(c, n)
          [] c = "id" -> Pick(c, i)
          [] c \in {"lat", "lon", "city", "province", "region"} -> Pick(c, 1)
          [] OTHER -> Pick(c, k)]

Tables(R, n) == UNION {[1..m -> R] : m \in 0..n}

\* plant identities <<name, id>>: a plant has one id, a name may be missing
Identity == {<<0, 1>>, <<0, 2>>, <<1, 1>>, <<2, 2>>}

AggRows == {UnitRow(p[1], p[2], k) : p \in Identity, k \in 0..2}

\* the columns of a GEM table
RawCols == {country_col} \cup selected_columns

FieldOf(c) == CHOOSE f \in AllCols : cols[f] = c

\* the text of the numeric columns as the file holds it
RawText ==
    [c \in NumericCols |->
        CASE c = "capacity_mw"    -> <<"50", "not found">>
          [] c = "start_year"     -> <<"2001", "2010">>
          [] c = "retired_year"   -> <<"2040", "unknown">>
          [] c = "planned_retire" -> <<"2050", "2050">>]

\* a row of the GEM table: country, latitude and longitude cells, status
\* cell, and the unit u that picks the other columns
RawRow(country, la, lo, st, u) ==
    [c \in RawCols |->
        IF c = country_col THEN V(country)
        ELSE LET f == FieldOf(c) IN
             CASE f = "lat" -> la
               [] f = "lon" -> lo
               [] f = "status" -> st
               [] f \in NumericCols -> V(RawText[f][u])
               [] f \in ListCols -> Pick(f, u)
               [] OTHER -> Pick(f, 1)]

RawStatuses ==
    {V(<<"Operating">>), V(<<" ", "construction", " ">>), V(<<"Shut", " ", "in">>), NaN}

GoodPlaces == {<<V(10), V(105)>>, <<V(-90), V(180)>>}

BadPlaces == {<<V(95), V(105)>>, <<NaN, V(105)>>, <<V(10), NaN>>, <<V(10), V(-181)>>}

\* rows that pass the country and coordinate filters, with every status;
\* rows that fail one of the filters
RawRows ==
    {RawRow(target_country, l[1], l[2], st, u) :
        l \in GoodPlaces, st \in RawStatuses, u \in 1..2}
    \cup {RawRow(target_country, l[1], l[2], V(<<"Operating">>), u) :
            l \in BadPlaces, u \in 1..2}
    \cup {RawRow("Thailand", V(10), V(105), V(<<"Operating">>), u) : u \in 1..2}

\* the column sets of the tables handed to the cleaner
ColumnSets ==
    {RawCols, RawCols \ {country_col}, RawCols \ {cols["status"]}, {}}

Restricted(rows, cs) ==
    IF cs = {} THEN NoFrame
    ELSE DataFrame(cs, [i \in 1..Len(rows) |-> [c \in cs |-> rows[i][c]]])

Envs ==
    [config : BOOLEAN, gem_file : BOOLEAN, suffix : {".xlsx", ".csv", ".json"},
     tiff : BOOLEAN, rasterio : BOOLEAN]

AllThere ==
    [config |-> TRUE, gem_file |-> TRUE, suffix |-> ".xlsx",
     tiff |-> TRUE, rasterio |-> TRUE]

\* ----------------------------------------------------------------- actions

InitRun ==
    /\ units = NoFrame
    /\ out = NoFrame
    /\ out2 = NoFrame
    /\ figures = {}
    /\ err = ""

\* merge_units_to_plants called on a table of unit rows
InitAgg ==
    /\ \E t \in Tables(AggRows, MaxRows) : df = DataFrame(AllCols, t)
    /\ env = AllThere
    /\ gem = NoFrame
    /\ pc = "call_merge"
    /\ InitRun

\* clean_gas_plant_data called on a GEM table
InitClean ==
    /\ \E t \in Tables(RawRows, MaxRawRows) : \E cs \in ColumnSets :
          df = Restricted(t, cs)
    /\ env = AllThere
    /\ gem = NoFrame
    /\ pc = "call_clean"
    /\ InitRun

\* python -m src.plotting
Init ==
    /\ env \in Envs
    /\ \E t \in Tables(RawRows, MaxGemRows) : gem = DataFrame(RawCols, t)
    /\ df = NoFrame
    /\ pc = "main"
    /\ InitRun

\* merge_units_to_plants(df)
Merge ==
    /\ pc = "call_merge"
    /\ LET r == merge_units_to_plants(df)
       IN  /\ err' = r.raised
           /\ out' = r.value
           /\ pc' = IF r.raised = "" THEN "merged" ELSE "raised"
    /\ UNCHANGED <<env, gem, df, units, out2, figures>>

\* merge_units_to_plants applied to the table it returned
MergeAgain ==
    /\ pc = "merged"
    /\ LET r == merge_units_to_plants(out)
       IN  /\ err' = r.raised
           /\ out2' = r.value
           /\ pc' = IF r.raised = "" THEN "merged_again" ELSE "raised"
    /\ UNCHANGED <<env, gem, df, units, out, figures>>

\* plotting.py line 159: df_raw = load_raw_gem_data()
LoadRaw ==
    /\ pc = "main"
    /\ LET r == load_raw_gem_data(env, gem)
       IN  /\ err' = r.raised
           /\ df' = r.value
           /\ pc' = IF r.raised = "" THEN "call_clean" ELSE "raised"
    /\ UNCHANGED <<env, gem, units, out, out2, figures>>

\* clean_gas_plant_data(df)
Clean ==
    /\ pc = "call_clean"
    /\ LET r == clean_gas_plant_data(df, env)
       IN  /\ err' = r.raised
           /\ units' = r.units
           /\ out' = r.value
           /\ pc' = IF r.raised = "" THEN "cleaned" ELSE "raised"
    /\ UNCHANGED <<env, gem, df, out2, figures>>

\* plotting.py line 168: plot_plants_and_pop_density(df_plants)
Plot ==
    /\ pc = "cleaned"
    /\ LET r == plot_plants_and_pop_density(out, env)
       IN  /\ err' = r.raised
           /\ figures' = figures \cup r.value
           /\ pc' = IF r.raised = "" THEN "done" ELSE "raised"
    /\ UNCHANGED <<env, gem, df, units, out, out2>>

NextAgg == Merge \/ MergeAgain

NextClean == Clean

Next == LoadRaw \/ Clean \/ Plot

SpecAgg == InitAgg /\ [][NextAgg]_vars

SpecClean == InitClean /\ [][NextClean]_vars

Spec == Init /\ [][Next]_vars

\* ------------------------------------------------ properties: the aggregator

Merged == pc \in {"merged", "merged_again"}

\* the grouping key as section 3 of the specification words it
KeyOf(d) ==
    IF \E i \in 1..Len(d.rows) : d.rows[i]["plant_name"] # NaN
    THEN "plant_name" ELSE "id"

\* the input rows (by position) that share the key of plant record p
Members(p) == {i \in 1..Len(df.rows) : df.rows[i][KeyOf(df)] = p[KeyOf(df)]}

CapacityOr0(r) == IF r["capacity_mw"] = NaN THEN 0 ELSE r["capacity_mw"][1]

RECURSIVE CapacityOver(_)
CapacityOver(S) ==
    IF S = {} THEN 0
    ELSE LET i == CHOOSE j \in S : TRUE
         IN  CapacityOr0(df.rows[i]) + CapacityOver(S \ {i})

RECURSIVE TotalOf(_, _)
TotalOf(rows, c) ==
    IF rows = <<>> THEN 0 ELSE Head(rows)[c][1] + TotalOf(Tail(rows), c)

\* C1: every plant record's capacity_mw is the sum of capacity_mw over the
\* input rows that share its grouping key, a null capacity counting as 0; a
\* group whose capacities are all null gives 0, not null.
C1_CapacityIsGroupSum ==
    Merged =>
        \A j \in 1..Len(out.rows) :
            out.rows[j]["capacity_mw"] = V(CapacityOver(Members(out.rows[j])))

\* a plant of two units, one of them without capacity, beside a plant whose
\* only unit has no capacity
C1_Witness ==
    /\ Merged
    /\ \E j, l \in 1..Len(out.rows) :
          /\ \E a, b \in Members(out.rows[j]) :
                /\ df.rows[a]["capacity_mw"] = NaN
                /\ df.rows[b]["capacity_mw"] # NaN
          /\ out.rows[j]["capacity_mw"] # V(0)
          /\ \A a \in Members(out.rows[l]) : df.rows[a]["capacity_mw"] = NaN
          /\ out.rows[l]["capacity_mw"] = V(0)

\* C2: num_units is the number of input rows that share the record's grouping
\* key (not the number of distinct unit ids), and is at least 1.
C2_NumUnitsIsGroupSize ==
    Merged =>
        \A j \in 1..Len(out.rows) :
            /\ out.rows[j]["num_units"] = V(Cardinality(Members(out.rows[j])))
            /\ out.rows[j]["num_units"][1] >= 1

\* a plant with two rows that carry the same unit id
C2_Witness ==
    /\ Merged
    /\ \E j \in 1..Len(out.rows) :
          /\ out.rows[j]["num_units"] = V(2)
          /\ out.rows[j]["unit_id"] = V("G1")

\* the non-null grouping keys of the input, in order of first appearance
FirstSeenKeys == Values(unique(dropna(Series(df.rows, KeyOf(df)))))

OutKeys == Series(out.rows, KeyOf(df))

\* C3, as claimed: one record per distinct grouping key, in the order in
\* which the keys are first seen in the input.
C3_FirstSeenOrder == Merged => Values(OutKeys) = FirstSeenKeys

\* C3, amended: one record per distinct non-null grouping key (the rows with
\* a null key give no record), in ascending order of the key.
C3_AscendingKeyOrder ==
    Merged =>
        /\ \A j \in 1..Len(out.rows) : OutKeys[j] # NaN
        /\ {OutKeys[j] : j \in 1..Len(out.rows)}
              = {df.rows[i][KeyOf(df)] : i \in 1..Len(df.rows)} \ {NaN}
        /\ \A j, l \in 1..Len(out.rows) :
              j < l => LessThan(OutKeys[j][1], OutKeys[l][1])

\* two plants whose first rows come in descending order of the key
C3_Witness ==
    /\ Merged
    /\ Len(out.rows) = 2
    /\ Len(FirstSeenKeys) = 2
    /\ LessThan(FirstSeenKeys[2], FirstSeenKeys[1])

\* C10: aggregation loses no unit row: over a non-empty input the num_units
\* of the records add up to the number of input rows and their capacity_mw to
\* the input's capacity (nulls as 0), also when some but not all rows have a
\* null plant_name.
C10_NoUnitLost ==
    (Merged /\ Len(df.rows) > 0) =>
        /\ TotalOf(out.rows, "num_units") = Len(df.rows)
        /\ TotalOf(out.rows, "capacity_mw") = CapacityOver(1..Len(df.rows))

\* every grouping key of the input is present and occurs exactly once
OneUnitPerPlant ==
    /\ Len(df.rows) > 0
    /\ \A i \in 1..Len(df.rows) : df.rows[i][KeyOf(df)] # NaN
    /\ \A i, j \in 1..Len(df.rows) :
          i # j => df.rows[i][KeyOf(df)] # df.rows[j][KeyOf(df)]

\* every non-null grouping key of the input occurs exactly once
OneUnitPerKey ==
    /\ Len(df.rows) > 0
    /\ \A i, j \in 1..Len(df.rows) :
          (i # j /\ df.rows[i][KeyOf(df)] # NaN)
              => df.rows[i][KeyOf(df)] # df.rows[j][KeyOf(df)]

\* a unit row as a plant record with the values unchanged: num_units = 1
\* added, unit_id and unit_name wrapped in a list (rendered as the value,
\* the empty list as "")
Unchanged(r) ==
    [c \in AllCols \cup {"num_units"} |->
        IF c = "num_units" THEN V(1)
        ELSE IF r[c] = NaN /\ c \in ListCols THEN V("")
        ELSE r[c]]

\* a unit row as the plant record of that unit alone: a null capacity is 0,
\* a null joined or list column is the empty string
AsPlant(r) ==
    [c \in AllCols \cup {"num_units"} |->
        IF c = "num_units" THEN V(1)
        ELSE IF r[c] = NaN /\ c = "capacity_mw" THEN V(0)
        ELSE IF r[c] = NaN /\ c \in JoinCols \cup ListCols THEN V("")
        ELSE r[c]]

RowSet(rows) == {rows[i] : i \in 1..Len(rows)}

\* C7, as claimed: over an input with one unit row per plant the output has
\* the input's rows with the same field values (num_units = 1 added), and a
\* second application changes nothing.
C7_SameValues ==
    (pc = "merged_again" /\ OneUnitPerPlant) =>
        /\ Len(out.rows) = Len(df.rows)
        /\ RowSet(out.rows) = {Unchanged(df.rows[i]) : i \in 1..Len(df.rows)}
        /\ out2 = out

\* C7, amended: over an input whose non-null grouping keys occur once each,
\* the output has one record per input row with a non-null key, in ascending
\* key order, with the row's values except that a null capacity_mw is 0 and
\* a null joined or list column is "", and num_units = 1; a second
\* application returns the same table.
C7_SameValuesButNulls ==
    (pc = "merged_again" /\ OneUnitPerKey) =>
        /\ Len(out.rows) =
              Cardinality({i \in 1..Len(df.rows) : df.rows[i][KeyOf(df)] # NaN})
        /\ RowSet(out.rows) =
              {AsPlant(df.rows[i]) :
                  i \in {j \in 1..Len(df.rows) : df.rows[j][KeyOf(df)] # NaN}}
        /\ \A j, l \in 1..Len(out.rows) :
              j < l => LessThan(OutKeys[j][1], OutKeys[l][1])
        /\ out2 = out

\* two single-unit plants, one of them with every optional column null
C7_Witness ==
    /\ pc = "merged_again"
    /\ OneUnitPerPlant
    /\ Len(df.rows) = 2
    /\ \E i \in 1..2 : df.rows[i]["capacity_mw"] = NaN /\ df.rows[i]["status"] = NaN
    /\ \E i \in 1..2 : df.rows[i]["capacity_mw"] # NaN

\* the non-null values of column c among the rows of S, each once, in order
\* of first appearance
FirstAppearance(S, c, L) ==
    /\ \A a, b \in 1..Len(L) : a # b => L[a] # L[b]
    /\ {L[a] : a \in 1..Len(L)} = {df.rows[i][c][1] : i \in {j \in S : df.rows[j][c] # NaN}}
    /\ \A a, b \in 1..Len(L) :
          a < b =>
            \E i \in S :
                /\ df.rows[i][c] = V(L[a])
                /\ \A j \in S : df.rows[j][c] = V(L[b]) => i < j

Lists(c) == UNION {[1..m -> {Sample[c][1], Sample[c][2]}] : m \in 0..2}

\* C8: the joined columns (status, technology, fuel, fuel_class, owner,
\* operator) and the list columns (unit_id, unit_name) of a plant record hold
\* each non-null value of the group's rows once, in order of first appearance
\* within the group (not sorted), joined with ", "; an all-null group gives "".
C8_DistinctJoinFirstSeen ==
    Merged =>
        \A j \in 1..Len(out.rows) : \A c \in JoinCols \cup ListCols :
            \E L \in Lists(c) :
                /\ FirstAppearance(Members(out.rows[j]), c, L)
                /\ out.rows[j][c] =
                      V(IF Len(L) = 0 THEN ""
                        ELSE IF Len(L) = 1 THEN L[1]
                        ELSE L[1] \o ", " \o L[2])

\* the plant of section 8's scenario: an operating unit before one under
\* construction, then the first again; beside it an all-null plant
C8_Witness ==
    /\ Merged
    /\ \E j, l \in 1..Len(out.rows) :
          /\ out.rows[j]["status"] = V("operating, construction")
          /\ out.rows[j]["unit_id"] = V("G1, G2")
          /\ out.rows[l]["status"] = V("")
          /\ out.rows[l]["unit_id"] = V("")

\* --------------------------------------------------- properties: the cleaner

Cleaned == pc = "cleaned"

KeepList == {"operating", "construction", "pre-construction", "announced"}

InRange(r) ==
    /\ r["lat"] # NaN /\ -90 <= r["lat"][1] /\ r["lat"][1] <= 90
    /\ r["lon"] # NaN /\ -180 <= r["lon"][1] /\ r["lon"][1] <= 180

\* the lists of distinct keep-list members, at most n long
KeepLists(n) ==
    {L \in UNION {[1..m -> KeepList] : m \in 1..n} :
        \A a, b \in 1..Len(L) : a # b => L[a] # L[b]}

Passes(r) ==
    /\ r[country_col] = V(target_country)
    /\ r[cols["lat"]] # NaN /\ -90 <= r[cols["lat"]][1] /\ r[cols["lat"]][1] <= 90
    /\ r[cols["lon"]] # NaN /\ -180 <= r[cols["lon"]][1] /\ r[cols["lon"]][1] <= 180

Pair(r) == <<r[cols["id"]], r[cols["unit_id"]]>>

UnitPair(u) == <<u["id"], u["unit_id"]>>

\* row i of the input is the first row of its (id, unit_id) pair among the
\* rows that pass the country and coordinate filters
FirstOfPair(i) ==
    /\ Passes(df.rows[i])
    /\ \A j \in 1..(i - 1) : Passes(df.rows[j]) => Pair(df.rows[j]) # Pair(df.rows[i])

\* the statuses of the GEM table that are keep-list members once trimmed and
\* lower-cased
RawKept(r) ==
    r[cols["status"]] \in {V(<<"Operating">>), V(<<" ", "construction", " ">>)}

\* unit row u is input row i
IsRow(u, i) ==
    /\ UnitPair(u) = Pair(df.rows[i])
    /\ u["lat"] = df.rows[i][cols["lat"]]
    /\ u["lon"] = df.rows[i][cols["lon"]]
    /\ (u["status"] = V("operating")) = (df.rows[i][cols["status"]] = V(<<"Operating">>))

\* C5: in the unit rows the cleaner keeps, every (id, unit_id) pair occurs at
\* most once; the row kept for a pair is its first occurrence, in input
\* order, among the rows that passed the country and coordinate filters; and
\* deduplication runs before the status filter: a pair whose first
\* occurrence has a status outside the keep-list is absent.
C5_FirstOccurrenceKept ==
    Cleaned =>
        /\ \A a, b \in 1..Len(units.rows) :
              a # b => UnitPair(units.rows[a]) # UnitPair(units.rows[b])
        /\ \A a \in 1..Len(units.rows) :
              \E i \in 1..Len(df.rows) :
                  FirstOfPair(i) /\ RawKept(df.rows[i]) /\ IsRow(units.rows[a], i)
        /\ \A i \in 1..Len(df.rows) :
              (FirstOfPair(i) /\ RawKept(df.rows[i])) =>
                  \E a \in 1..Len(units.rows) : IsRow(units.rows[a], i)
        /\ \A i \in 1..Len(df.rows) :
              (FirstOfPair(i) /\ ~RawKept(df.rows[i])) =>
                  \A a \in 1..Len(units.rows) :
                      UnitPair(units.rows[a]) # Pair(df.rows[i])
        /\ \A a, b \in 1..Len(units.rows) :
              a < b =>
                \E i, j \in 1..Len(df.rows) :
                    i < j /\ IsRow(units.rows[a], i) /\ IsRow(units.rows[b], j)

\* the same unit twice, at two valid places, both with a kept status
C5_Witness ==
    /\ Cleaned
    /\ Len(df.rows) = 2
    /\ Passes(df.rows[1]) /\ Passes(df.rows[2])
    /\ RawKept(df.rows[1]) /\ RawKept(df.rows[2])
    /\ Pair(df.rows[1]) = Pair(df.rows[2])
    /\ df.rows[1][cols["lat"]] # df.rows[2][cols["lat"]]
    /\ Len(units.rows) = 1

HasColumns == selected_columns \subseteq df.columns

\* C6, as claimed: the cleaner never raises, neither for an empty table nor
\* for a table that lacks a configured source column.
C6_NeverRaises ==
    (pc # "call_clean" /\ country_col \in df.columns
            /\ (Len(df.rows) = 0 \/ ~HasColumns)) =>
        err = "" /\ pc = "cleaned"

\* C6, amended: for an empty table that has the Country/Area column and
\* every configured source column the cleaner returns an empty table without
\* raising; for a table that lacks one of these columns it raises KeyError;
\* merge_units_to_plants returns an empty input as it is, without raising.
C6_RaisesForMissingColumn ==
    pc # "call_clean" =>
        /\ (country_col \in df.columns /\ HasColumns /\ Len(df.rows) = 0) =>
              (err = "" /\ pc = "cleaned" /\ Len(out.rows) = 0)
        /\ ~(country_col \in df.columns /\ HasColumns) =>
              (err = "KeyError" /\ pc = "raised")
        /\ (Cleaned /\ Len(units.rows) = 0) => (out = units /\ err = "")

\* an empty table without the status column
C6_Witness ==
    /\ pc = "raised"
    /\ Len(df.rows) = 0
    /\ country_col \in df.columns
    /\ cols["status"] \notin df.columns

\* -------------------------------------------------- properties: the pipeline

\* C9: with the config file, the GEM file and the raster present and at least
\* one plant with coordinates left by the cleaner, the run ends having
\* written plants_and_pop_density.png under the figures directory, without
\* raising.
C9_ImageWritten ==
    (/\ pc \in {"done", "raised"}
     /\ env = AllThere
     /\ \E j \in 1..Len(out.rows) :
            out.rows[j]["lat"] # NaN /\ out.rows[j]["lon"] # NaN) =>
        /\ pc = "done"
        /\ err = ""
        /\ figures = {figure_name}

====
